---- MODULE Spec2Model ----
(***************************************************************************)
(* Aura Bank ML API server (src/model/ml_api.py): the four model handles   *)
(* set by load_models and the request handlers of the Flask application.   *)
(*                                                                         *)
(* Python floats are IEEE-754 doubles.  The heuristic scores are sums of   *)
(* decimal literals, so they are computed here as the interpreter computes *)
(* them: every literal is the double nearest to the decimal, and every     *)
(* addition rounds to 53 significant bits (round-half-to-even).            *)
(***************************************************************************)
EXTENDS Integers, Sequences, FiniteSets, TLC

----------------------------------------------------------------------------
(* JSON values of a request body.  A number is an integer n; strings carry *)
(* their text; "absent" marks a key the body does not hold.                *)

Num(n) == [t |-> "num", n |-> n, s |-> ""]
Str(s) == [t |-> "str", n |-> 0, s |-> s]
Bool(b) == [t |-> "bool", n |-> IF b THEN 1 ELSE 0, s |-> ""]
Null == [t |-> "null", n |-> 0, s |-> ""]
Absent == [t |-> "absent", n |-> 0, s |-> ""]

\* dict.get(key, default) on a parsed JSON object (a function on its keys)
Get(data, key, default) == IF key \in DOMAIN data THEN data[key] ELSE default

\* the JSON object holding the keys of rec that are not Absent
MkBody(rec) == [k \in {x \in DOMAIN rec : rec[x].t # "absent"} |-> rec[k]]

\* Python truthiness of a JSON value (if v: ...)
Truthy(v) ==
    CASE v.t = "num" -> v.n # 0
      [] v.t = "bool" -> v.n = 1
      [] v.t = "str" -> v.s # ""
      [] OTHER -> FALSE

\* the strings of the model that float() and int() parse, with their value
NumericStrings == {"2"}
StrValue(s) == IF s = "2" THEN 2 ELSE 0

\* float(v): a number or bool converts, a numeric string parses, anything
\* else raises (ValueError for text, TypeError for None)
ToFloat(v) ==
    CASE v.t \in {"num", "bool"} -> [ok |-> TRUE, n |-> v.n]
      [] v.t = "str" /\ v.s \in NumericStrings -> [ok |-> TRUE, n |-> StrValue(v.s)]
      [] OTHER -> [ok |-> FALSE, n |-> 0]

----------------------------------------------------------------------------
(* IEEE-754 doubles of magnitude below 2, as sign and magnitude.  The      *)
(* magnitude counts units of 2^-57 in four limbs of 19 bits, least         *)
(* significant first; the fourth limb is the integer part.  Every literal  *)
(* of the scoring code is at least 0.05, whose unit in the last place is   *)
(* 2^-57, so every double the scoring code computes is a whole number of   *)
(* units.                                                                  *)

LimbBase == 2^19

MagZero == <<0, 0, 0, 0>>

MagLt(a, b) ==
    \/ a[4] < b[4]
    \/ a[4] = b[4] /\ a[3] < b[3]
    \/ a[4] = b[4] /\ a[3] = b[3] /\ a[2] < b[2]
    \/ a[4] = b[4] /\ a[3] = b[3] /\ a[2] = b[2] /\ a[1] < b[1]

MagAdd(a, b) ==
    LET s1 == a[1] + b[1]
        s2 == a[2] + b[2] + (s1 \div LimbBase)
        s3 == a[3] + b[3] + (s2 \div LimbBase)
    IN  <<s1 % LimbBase, s2 % LimbBase, s3 % LimbBase,
          a[4] + b[4] + (s3 \div LimbBase)>>

\* a - b for a >= b
MagSub(a, b) ==
    LET d1 == a[1] - b[1]
        w1 == IF d1 < 0 THEN 1 ELSE 0
        d2 == a[2] - b[2] - w1
        w2 == IF d2 < 0 THEN 1 ELSE 0
        d3 == a[3] - b[3] - w2
        w3 == IF d3 < 0 THEN 1 ELSE 0
    IN  <<d1 + w1 * LimbBase, d2 + w2 * LimbBase, d3 + w3 * LimbBase,
          a[4] - b[4] - w3>>

\* a * k for a small k
MagMul(a, k) ==
    LET p1 == a[1] * k
        p2 == a[2] * k + (p1 \div LimbBase)
        p3 == a[3] * k + (p2 \div LimbBase)
    IN  <<p1 % LimbBase, p2 % LimbBase, p3 % LimbBase,
          a[4] * k + (p3 \div LimbBase)>>

\* the number of low bits a magnitude below 2 holds beyond 53 significant
DroppedBits(m) ==
    CASE m[4] >= 1 -> 5
      [] m[3] >= 2^18 -> 4
      [] m[3] >= 2^17 -> 3
      [] m[3] >= 2^16 -> 2
      [] m[3] >= 2^15 -> 1
      [] OTHER -> 0

\* round-half-to-even to 53 significant bits of the exact value
\* m + rem/100 units (rem in 0..99 is what a division by 100 left over)
Round53(m, rem) ==
    LET d == DroppedBits(m)
        q == 2^d
        r == m[1] % q
        odd == (m[1] \div q) % 2 = 1
        up == IF d = 0
              THEN 2 * rem > 100 \/ (2 * rem = 100 /\ odd)
              ELSE 2 * r > q \/ (2 * r = q /\ (rem > 0 \/ odd))
        base == <<m[1] - r, m[2], m[3], m[4]>>
    IN  IF up THEN MagAdd(base, <<q, 0, 0, 0>>) ELSE base

\* the double a decimal literal of n hundredths denotes (0.3 is Dec(30)),
\* for 4 <= n < 200
Dec(n) ==
    LET l4 == n \div 100
        r4 == n % 100
        l3 == (r4 * LimbBase) \div 100
        r3 == (r4 * LimbBase) % 100
        l2 == (r3 * LimbBase) \div 100
        r2 == (r3 * LimbBase) % 100
        l1 == (r2 * LimbBase) \div 100
        r1 == (r2 * LimbBase) % 100
    IN  [neg |-> FALSE, mag |-> Round53(<<l1, l2, l3, l4>>, r1)]

FZero == [neg |-> FALSE, mag |-> MagZero]

\* x + y on doubles
FAdd(x, y) ==
    [neg |-> IF x.neg = y.neg THEN x.neg
             ELSE IF x.mag = y.mag THEN FALSE
             ELSE IF MagLt(x.mag, y.mag) THEN y.neg ELSE x.neg,
     mag |-> Round53(IF x.neg = y.neg THEN MagAdd(x.mag, y.mag)
                     ELSE IF MagLt(x.mag, y.mag) THEN MagSub(y.mag, x.mag)
                     ELSE MagSub(x.mag, y.mag), 0)]

\* x - y on doubles
FSub(x, y) == FAdd(x, [neg |-> (y.mag # MagZero) /\ ~y.neg, mag |-> y.mag])

\* x < y on doubles
FLt(x, y) ==
    CASE x.neg /\ ~y.neg -> TRUE
      [] ~x.neg /\ y.neg -> FALSE
      [] x.neg /\ y.neg -> MagLt(y.mag, x.mag)
      [] OTHER -> MagLt(x.mag, y.mag)

FGt(x, y) == FLt(y, x)
FGe(x, y) == ~FLt(x, y)

\* score += h/100 for each h > 0 of steps and score -= -h/100 for each
\* h < 0, in order: the augmented assignments a scoring function executes
RECURSIVE Accumulate(_, _)
Accumulate(score, steps) ==
    IF steps = <<>> THEN score
    ELSE Accumulate(IF Head(steps) < 0
                    THEN FSub(score, Dec(0 - Head(steps)))
                    ELSE FAdd(score, Dec(Head(steps))),
                    Tail(steps))

\* min(x, y) and max(x, y) of Python: the first argument unless the second
\* is strictly smaller (larger)
FMin(x, y) == IF FLt(y, x) THEN y ELSE x
FMax(x, y) == IF FLt(x, y) THEN y ELSE x

\* round(x, 4) as the count of ten-thousandths: the decimal nearest to the
\* exact value of the double, ties to even
Round4(x) ==
    LET p == MagMul(MagMul(x.mag, 100), 100)
        half == 2^18
        above == p[3] > half \/ (p[3] = half /\ (p[2] > 0 \/ p[1] > 0))
        tie == p[3] = half /\ p[2] = 0 /\ p[1] = 0
        n == IF above \/ (tie /\ p[4] % 2 = 1) THEN p[4] + 1 ELSE p[4]
    IN  IF x.neg THEN 0 - n ELSE n

----------------------------------------------------------------------------
(* The server.  artifacts is the model directory as load_models finds it;  *)
(* the four handles are the module globals; request and response are the   *)
(* request being handled and the (status, JSON) pair its handler returns.  *)
(* A request is its endpoint and parsed JSON body: null, or an object whose *)
(* scalar keys are data and whose "transactions" list, when the key is     *)
(* there, is transactions.  A response is its status, the scalar keys of   *)
(* its JSON object, and the one list it may carry (results, or             *)
(* risk_assessment).                                                       *)

VARIABLES artifacts, fraud_model, loan_model, expense_classifier,
          expense_vectorizer, phase, request, response

handles == <<fraud_model, loan_model, expense_classifier, expense_vectorizer>>
vars == <<artifacts, fraud_model, loan_model, expense_classifier,
          expense_vectorizer, phase, request, response>>

\* What a model file of the directory can be: not there, not
\* deserializable, or the pickled object.  "clf" is a classifier with
\* predict and predict_proba, "noproba" one whose predict_proba raises,
\* "broken" an object whose predict raises on the frame it is given.
Unloadable == {"missing", "corrupt"}
FraudArtifacts == Unloadable \cup {"clf", "noproba", "broken"}
LoanArtifacts == Unloadable \cup {"clf", "noproba", "broken"}
ExpenseArtifacts == Unloadable \cup {"clf"}
VectorizerArtifacts == Unloadable \cup {"tfidf"}

ArtifactStates ==
    [credit_card_model : FraudArtifacts,
     load_prediction_model : LoanArtifacts,
     expense_classifier_clean : ExpenseArtifacts,
     tfidf_vectorizer_clean : VectorizerArtifacts]

\* pickle.load / joblib.load of an existing file: the object, or an exception
Loaded(a) == IF a \in Unloadable THEN "None" ELSE a

NoRequest == [endpoint |-> "", null |-> TRUE, data |-> MkBody([x |-> Absent]),
              has_transactions |-> FALSE, transactions |-> <<>>]
NoResponse == [status |-> 0, body |-> MkBody([x |-> Absent]), list |-> <<>>]

\* a request whose parsed JSON body is the object of rec's present keys
Request(endpoint, rec) ==
    [endpoint |-> endpoint, null |-> FALSE, data |-> MkBody(rec),
     has_transactions |-> FALSE, transactions |-> <<>>]

\* a request whose parsed JSON body is {"transactions": txs}
BatchRequest(endpoint, txs) ==
    [endpoint |-> endpoint, null |-> FALSE, data |-> MkBody([x |-> Absent]),
     has_transactions |-> TRUE, transactions |-> txs]

\* a request whose parsed JSON body is null
NullRequest(endpoint) ==
    [endpoint |-> endpoint, null |-> TRUE, data |-> MkBody([x |-> Absent]),
     has_transactions |-> FALSE, transactions |-> <<>>]

\* jsonify(body), status
Reply(status, body) == [status |-> status, body |-> body, list |-> <<>>]
ReplyList(status, body, list) == [status |-> status, body |-> body, list |-> list]

\* except Exception as e: return jsonify({'error': str(e)}), 500
Caught == Reply(500, [error |-> Str("exception")])

\* fraud_model = None ... expense_vectorizer = None, before load_models()
InitHandles ==
    /\ fraud_model = "None"
    /\ loan_model = "None"
    /\ expense_classifier = "None"
    /\ expense_vectorizer = "None"
    /\ phase = "startup"
    /\ request = NoRequest
    /\ response = NoResponse

Init == artifacts \in ArtifactStates /\ InitHandles

\* a load_models whose first failed load ends it: the handles of the later
\* blocks stay None
LoadModels_AbortOnFailure ==
    /\ phase = "startup"
    /\ fraud_model' = Loaded(artifacts.credit_card_model)
    /\ loan_model' =
         IF artifacts.credit_card_model = "corrupt" THEN "None"
         ELSE Loaded(artifacts.load_prediction_model)
    /\ expense_classifier' =
         IF "corrupt" \in {artifacts.credit_card_model, artifacts.load_prediction_model}
            \/ "missing" \in {artifacts.expense_classifier_clean,
                               artifacts.tfidf_vectorizer_clean}
         THEN "None"
         ELSE Loaded(artifacts.expense_classifier_clean)
    /\ expense_vectorizer' =
         IF "corrupt" \in {artifacts.credit_card_model, artifacts.load_prediction_model}
            \/ artifacts.expense_classifier_clean \in Unloadable
            \/ artifacts.tfidf_vectorizer_clean = "missing"
         THEN "None"
         ELSE Loaded(artifacts.tfidf_vectorizer_clean)
    /\ phase' = "idle"
    /\ UNCHANGED <<artifacts, request, response>>

\* the three try blocks of load_models: each leaves its handles alone when
\* the file is missing or the load raises.  The expense block loads the
\* classifier, then the vectorizer, only when both files exist.
LoadModels ==
    /\ phase = "startup"
    /\ fraud_model' = Loaded(artifacts.credit_card_model)
    /\ loan_model' = Loaded(artifacts.load_prediction_model)
    /\ expense_classifier' =
         IF artifacts.expense_classifier_clean # "missing"
            /\ artifacts.tfidf_vectorizer_clean # "missing"
         THEN Loaded(artifacts.expense_classifier_clean)
         ELSE "None"
    /\ expense_vectorizer' =
         IF artifacts.expense_classifier_clean \notin Unloadable
            /\ artifacts.tfidf_vectorizer_clean # "missing"
         THEN Loaded(artifacts.tfidf_vectorizer_clean)
         ELSE "None"
    /\ phase' = "idle"
    /\ UNCHANGED <<artifacts, request, response>>

\* Flask hands a request of the set reqs to its view function
Receive(reqs) ==
    /\ phase = "idle"
    /\ \E r \in reqs : request' = r
    /\ phase' = "received"
    /\ UNCHANGED <<artifacts, handles, response>>

\* the response leaves; the worker waits for the next request
SendResponse ==
    /\ phase = "responded"
    /\ phase' = "idle"
    /\ request' = NoRequest
    /\ response' = NoResponse
    /\ UNCHANGED <<artifacts, handles>>

\* a view function that forgets the fraud model when it answers 500
Handle_ForgetsModel(endpoint, resp) ==
    /\ phase = "received"
    /\ request.endpoint = endpoint
    /\ response' = resp
    /\ phase' = "responded"
    /\ fraud_model' = IF resp.status = 500 THEN "None" ELSE fraud_model
    /\ UNCHANGED <<artifacts, loan_model, expense_classifier, expense_vectorizer,
                   request>>

\* a view function runs to its return
Handle(endpoint, resp) ==
    /\ phase = "received"
    /\ request.endpoint = endpoint
    /\ response' = resp
    /\ phase' = "responded"
    /\ UNCHANGED <<artifacts, handles, request>>

----------------------------------------------------------------------------
(* GET /health *)

HealthResponse ==
    Reply(200, [status |-> Str("OK"),
                fraud_model_loaded |-> Bool(fraud_model # "None"),
                loan_model_loaded |-> Bool(loan_model # "None"),
                expense_model_loaded |->
                    Bool(expense_classifier # "None" /\ expense_vectorizer # "None")])

HealthCheck == Handle("/health", HealthResponse)

----------------------------------------------------------------------------
(* POST /predict_fraud.  Amounts are whole currency units.  A probability  *)
(* in a response is round(p, 4), held as its count of ten-thousandths.     *)

\* 'HIGH' if p > 0.7 else 'MEDIUM' if p > 0.4 else 'LOW'
RiskLevel(p) ==
    IF FGt(p, Dec(70)) THEN "HIGH" ELSE IF FGt(p, Dec(40)) THEN "MEDIUM" ELSE "LOW"

\* x < lo or x > hi on a JSON value: a string or None against an int raises
Comparable(v) == v.t \in {"num", "bool"}

\* the hour test inverted: the boost goes to the daytime hours
SimplifiedBoosts_DaytimeHour(amount, hour, is_foreign, rapid) ==
    (IF amount > 5000 THEN <<30>>
     ELSE IF amount > 2000 THEN <<15>>
     ELSE IF amount > 1000 THEN <<5>>
     ELSE <<>>)
    \o (IF amount < 1 \/ amount > 10000 THEN <<20>> ELSE <<>>)
    \o (IF hour >= 6 /\ hour <= 23 THEN <<10>> ELSE <<>>)
    \o (IF is_foreign THEN <<15>> ELSE <<>>)
    \o (IF rapid THEN <<25>> ELSE <<>>)

\* the boosts, in hundredths, that the simplified branch adds to
\* risk_score, in the order it adds them
SimplifiedBoosts(amount, hour, is_foreign, rapid) ==
    (IF amount > 5000 THEN <<30>>
     ELSE IF amount > 2000 THEN <<15>>
     ELSE IF amount > 1000 THEN <<5>>
     ELSE <<>>)
    \o (IF amount < 1 \/ amount > 10000 THEN <<20>> ELSE <<>>)
    \o (IF hour < 6 \/ hour > 23 THEN <<10>> ELSE <<>>)
    \o (IF is_foreign THEN <<15>> ELSE <<>>)
    \o (IF rapid THEN <<25>> ELSE <<>>)

\* risk_score = 0.0, then the boosts
SimplifiedRisk(amount, hour, is_foreign, rapid) ==
    Accumulate(FZero, SimplifiedBoosts(amount, hour, is_foreign, rapid))

\* the cap left out
CapRisk_Uncapped(r) == r

\* risk_score = min(risk_score, 0.95)
CapRisk(r) == FMin(r, Dec(95))

\* is_fraud: risk_score > 0.5
IsFraud(risk) == FGt(risk, Dec(50))

\* the JSON of the simplified branch for a capped risk score
HeuristicFraud(risk) ==
    [is_fraud |-> Bool(IsFraud(risk)),
     fraud_probability |-> Num(Round4(risk)),
     risk_level |-> Str(RiskLevel(risk)),
     model_type |-> Str("heuristic")]

\* the simplified branch of predict_fraud
SimplifiedFraud(data) ==
    IF ~ToFloat(Get(data, "Amount", Num(0))).ok \/ ~Comparable(Get(data, "hour", Num(12)))
    THEN Caught
    ELSE Reply(200, HeuristicFraud(CapRisk(SimplifiedRisk(
                        ToFloat(Get(data, "Amount", Num(0))).n,
                        Get(data, "hour", Num(12)).n,
                        Truthy(Get(data, "is_foreign", Bool(FALSE))),
                        Truthy(Get(data, "rapid_transactions", Bool(FALSE)))))))

\* float(value) if value is not None else 0.0, for a feature column
Feature(data, feat) ==
    LET value == Get(data, feat, Num(0))
    IN  IF value.t = "null" THEN [ok |-> TRUE, n |-> 0] ELSE ToFloat(value)

\* fraud_model.predict(X)[0] of the pickled classifier: it flags the
\* transactions of amount above 5000
FraudModelPredict(model, amount) ==
    IF model = "broken" THEN [ok |-> FALSE, n |-> 0]
    ELSE [ok |-> TRUE, n |-> IF amount > 5000 THEN 1 ELSE 0]

\* fraud_model.predict_proba(X)[0][1], which may raise
FraudModelProba(model, amount) ==
    IF model = "noproba" THEN [ok |-> FALSE, p |-> FZero]
    ELSE [ok |-> TRUE, p |-> IF amount > 5000 THEN Dec(85) ELSE Dec(10)]

\* float(prediction)
FloatOfClass(n) == IF n = 1 THEN [neg |-> FALSE, mag |-> <<0, 0, 0, 1>>] ELSE FZero

\* the JSON of the model branch for a class and its probability
ModelVerdict(prediction, probability) ==
    [is_fraud |-> Bool(prediction = 1),
     fraud_probability |-> Num(Round4(probability)),
     risk_level |-> Str(RiskLevel(probability)),
     model_type |-> Str("ml_model")]

\* probability = predict_proba(X)[0][1], or float(prediction) when that raises
ProbabilityOr(proba, prediction) == IF proba.ok THEN proba.p ELSE FloatOfClass(prediction)

\* the model branch of predict_fraud, the handle being present
ModelFraud(data, model) ==
    IF \/ ~Feature(data, "Time").ok
       \/ ~Feature(data, "Amount").ok
       \/ ~FraudModelPredict(model, Feature(data, "Amount").n).ok
    THEN Caught
    ELSE Reply(200, ModelVerdict(
                 FraudModelPredict(model, Feature(data, "Amount").n).n,
                 ProbabilityOr(FraudModelProba(model, Feature(data, "Amount").n),
                               FraudModelPredict(model, Feature(data, "Amount").n).n)))

\* return jsonify({'error': ..., 'fallback': True, ...}), 503
FraudUnavailable ==
    Reply(503, [error |-> Str("Fraud detection model not loaded"),
                fallback |-> Bool(TRUE),
                is_fraud |-> Bool(FALSE),
                fraud_probability |-> Num(0)])

\* if not data: None and the empty object are both falsy
NoData(req) == req.null \/ (DOMAIN req.data = {} /\ ~req.has_transactions)

NoInput == Reply(400, [error |-> Str("No input data provided")])

\* an absent handle answered with the heuristic instead of the 503
PredictFraudResponse_SilentHeuristic(req, model) ==
    IF NoData(req) THEN NoInput
    ELSE IF Truthy(Get(req.data, "simplified", Bool(FALSE))) \/ model = "None"
    THEN SimplifiedFraud(req.data)
    ELSE ModelFraud(req.data, model)

PredictFraudResponse(req, model) ==
    IF NoData(req) THEN NoInput
    ELSE IF Truthy(Get(req.data, "simplified", Bool(FALSE))) THEN SimplifiedFraud(req.data)
    ELSE IF model = "None" THEN FraudUnavailable
    ELSE ModelFraud(req.data, model)

PredictFraud == Handle("/predict_fraud", PredictFraudResponse(request, fraud_model))

\* the bodies of the /predict_fraud requests of the model
FraudAmounts == {Absent, Num(1), Num(1500), Num(2500), Num(6000), Num(10001),
                 Str("abc")}
FraudHours == {Absent, Num(5), Num(6), Num(23), Num(24), Str("late")}
Flags == {Absent, Bool(TRUE)}

FraudRequests ==
    {NullRequest("/predict_fraud")}
    \cup {Request("/predict_fraud",
                  [simplified |-> s, Amount |-> a, hour |-> h, is_foreign |-> f,
                   rapid_transactions |-> r]) :
            s \in {Bool(TRUE)}, a \in FraudAmounts, h \in FraudHours,
            f \in Flags, r \in Flags}
    \cup {Request("/predict_fraud",
                  [simplified |-> s, Amount |-> a, Time |-> t]) :
            s \in {Absent, Bool(FALSE)}, a \in FraudAmounts, t \in {Absent, Null}}

----------------------------------------------------------------------------
(* POST /predict_fraud_batch *)

\* the two amount tiers exchanged
BatchBoosts_SwappedTiers(amount, is_foreign) ==
    (IF amount > 5000 THEN <<15>>
     ELSE IF amount > 2000 THEN <<30>>
     ELSE <<>>)
    \o (IF amount < 1 \/ amount > 10000 THEN <<20>> ELSE <<>>)
    \o (IF is_foreign THEN <<15>> ELSE <<>>)

\* the boosts, in hundredths, that the batch loop adds to risk_score
BatchBoosts(amount, is_foreign) ==
    (IF amount > 5000 THEN <<30>>
     ELSE IF amount > 2000 THEN <<15>>
     ELSE <<>>)
    \o (IF amount < 1 \/ amount > 10000 THEN <<20>> ELSE <<>>)
    \o (IF is_foreign THEN <<15>> ELSE <<>>)

\* risk_score = 0.0, then the boosts
BatchRisk(amount, is_foreign) == Accumulate(FZero, BatchBoosts(amount, is_foreign))

\* is_fraud of a transaction of a batch: risk_score > 0.5
BatchIsFraud(risk) == FGt(risk, Dec(50))

\* the entry appended to results for a transaction and its capped score
BatchEntry(tx, risk) ==
    [transaction_id |-> Get(tx, "id", Get(tx, "transaction_id", Null)),
     is_fraud |-> Bool(BatchIsFraud(risk)),
     fraud_probability |-> Num(Round4(risk)),
     risk_level |-> Str(RiskLevel(risk))]

\* amount = float(tx.get('Amount', tx.get('amount', 0)))
BatchAmount(tx) == ToFloat(Get(tx, "Amount", Get(tx, "amount", Num(0))))

\* one pass of the loop over the transactions
BatchResult(tx) ==
    BatchEntry(tx, CapRisk(BatchRisk(BatchAmount(tx).n,
                                     Truthy(Get(tx, "is_foreign", Bool(FALSE))))))

\* every result counted as flagged
Flagged_CountsAll(results) == Len(results)

\* sum(1 for r in results if r['is_fraud'])
Flagged(results) == Cardinality({i \in DOMAIN results : results[i].is_fraud = Bool(TRUE)})

\* jsonify({'success': True, 'results': results, 'total': ..., 'flagged': ...})
BatchReply(results) ==
    ReplyList(200, [success |-> Bool(TRUE),
                    total |-> Num(Len(results)),
                    flagged |-> Num(Flagged(results))],
              results)

\* data.get on a null body raises AttributeError and float() of a
\* non-numeric amount ValueError; the handler catches both
PredictFraudBatchResponse(req) ==
    IF req.null \/ \E i \in DOMAIN req.transactions : ~BatchAmount(req.transactions[i]).ok
    THEN Caught
    ELSE BatchReply([i \in DOMAIN req.transactions |-> BatchResult(req.transactions[i])])

PredictFraudBatch == Handle("/predict_fraud_batch", PredictFraudBatchResponse(request))

\* the longest transactions list of a batch request of the model
MaxBatch == 2

BatchAmounts == {Absent, Num(2500), Num(6000), Num(10001)}

Transactions ==
    {MkBody([Amount |-> a, is_foreign |-> f]) : a \in BatchAmounts, f \in Flags}
    \cup {MkBody([amount |-> Num(6000), id |-> Str("t1")]),
          MkBody([Amount |-> Num(10001), is_foreign |-> Bool(TRUE),
                  transaction_id |-> Str("t2")]),
          MkBody([Amount |-> Str("abc"), id |-> Str("t3")]),
          MkBody([Amount |-> Num(1500), id |-> Str("t4"), transaction_id |-> Str("t5")]),
          MkBody([Amount |-> Num(2500), hour |-> Num(5)]),
          MkBody([Amount |-> Num(6000), rapid_transactions |-> Bool(TRUE)])}

TransactionLists == UNION {[1..n -> Transactions] : n \in 0..MaxBatch}

FraudBatchRequests ==
    {NullRequest("/predict_fraud_batch"),
     Request("/predict_fraud_batch", [x |-> Absent])}
    \cup {BatchRequest("/predict_fraud_batch", txs) : txs \in TransactionLists}

----------------------------------------------------------------------------
(* The fraud endpoints on their own: the fraud artifact is any of its      *)
(* states, the other artifacts are all missing or all loadable.            *)

OthersUniform(a, names) ==
    \/ \A f \in names : a[f] = "missing"
    \/ \A f \in names : a[f] \notin Unloadable /\ a[f] # "noproba" /\ a[f] # "broken"

InitFraud ==
    /\ artifacts \in {a \in ArtifactStates :
                        OthersUniform(a, {"load_prediction_model",
                                          "expense_classifier_clean",
                                          "tfidf_vectorizer_clean"})}
    /\ InitHandles

NextFraud ==
    \/ LoadModels
    \/ Receive(FraudRequests)
    \/ Receive(FraudBatchRequests)
    \/ PredictFraud
    \/ PredictFraudBatch
    \/ SendResponse

SpecFraud == InitFraud /\ [][NextFraud]_vars

----------------------------------------------------------------------------
(* POST /predict_loan.  Incomes, amounts and terms are whole numbers, so   *)
(* the quotients emi, income_to_loan and emi_ratio are compared with their *)
(* thresholds by cross-multiplication; the requests of the model keep      *)
(* every quotient either on a threshold the division reaches without       *)
(* rounding or farther from it than the rounding of a double.  The score   *)
(* itself is accumulated in doubles.  The message of a risk factor is not  *)
(* part of the response here, its factor and status are.                   *)

\* dependents = 3 if dependents == '3+' else int(dependents)
IntOfDependents(v) ==
    CASE v.t = "str" /\ v.s = "3+" -> [ok |-> TRUE, n |-> 3]
      [] v.t = "str" /\ v.s \in NumericStrings -> [ok |-> TRUE, n |-> StrValue(v.s)]
      [] v.t \in {"num", "bool"} -> [ok |-> TRUE, n |-> v.n]
      [] OTHER -> [ok |-> FALSE, n |-> 0]

\* the fields predict_loan extracts, with the guards against a zero term
\* and a zero amount applied; ok is FALSE when a conversion or one of the
\* divisions by (loan_amount + 1) and (dependents + 1) raises
LoanFields(data) ==
    LET applicant_income == ToFloat(Get(data, "ApplicantIncome", Num(0)))
        coapplicant_income == ToFloat(Get(data, "CoapplicantIncome", Num(0)))
        amount == ToFloat(Get(data, "LoanAmount", Num(0)))
        term == ToFloat(Get(data, "Loan_Amount_Term", Num(360)))
        credit_history == ToFloat(Get(data, "Credit_History", Num(1)))
        dependents == IntOfDependents(Get(data, "Dependents", Num(0)))
        loan_term == IF term.n = 0 THEN 360 ELSE term.n
        loan_amount == IF amount.n = 0 THEN 1 ELSE amount.n
    IN  [ok |-> /\ applicant_income.ok /\ coapplicant_income.ok /\ amount.ok
                /\ term.ok /\ credit_history.ok /\ dependents.ok
                /\ loan_amount + 1 # 0
                /\ dependents.n + 1 # 0,
         total_income |-> applicant_income.n + coapplicant_income.n,
         coapplicant_income |-> coapplicant_income.n,
         loan_amount |-> loan_amount,
         loan_term |-> loan_term,
         credit_history |-> credit_history.n,
         dependents |-> dependents.n]

\* num / den > k / m and num / den < k / m for a divisor den # 0 and m > 0
QuotientGt(num, den, k, m) == IF den > 0 THEN m * num > k * den ELSE m * num < k * den
QuotientLt(num, den, k, m) == IF den > 0 THEN m * num < k * den ELSE m * num > k * den

\* income_to_loan = total_income / (loan_amount + 1), against k
IncomeToLoanGt(f, k) == QuotientGt(f.total_income, f.loan_amount + 1, k, 1)
IncomeToLoanLt(f, k) == QuotientLt(f.total_income, f.loan_amount + 1, k, 1)

\* emi / monthly_income = (loan_amount / loan_term) / (total_income / 12),
\* against k / 100, for total_income > 0
EmiRatioLt(f, k) == QuotientLt(12 * f.loan_amount, f.loan_term * f.total_income, k, 100)
EmiRatioGt(f, k) == QuotientGt(12 * f.loan_amount, f.loan_term * f.total_income, k, 100)

\* the steps, in hundredths, the heuristic applies to the base score
LoanSteps(f, data) ==
    (IF f.credit_history = 1 THEN <<25>> ELSE <<-35>>)
    \o (IF IncomeToLoanGt(f, 10) THEN <<15>>
        ELSE IF IncomeToLoanGt(f, 5) THEN <<10>>
        ELSE IF IncomeToLoanGt(f, 2) THEN <<5>>
        ELSE IF IncomeToLoanLt(f, 1) THEN <<-15>>
        ELSE <<>>)
    \o (IF f.total_income > 0
        THEN IF EmiRatioLt(f, 20) THEN <<10>>
             ELSE IF EmiRatioLt(f, 40) THEN <<5>>
             ELSE IF EmiRatioGt(f, 50) THEN <<-10>>
             ELSE <<>>
        ELSE <<>>)
    \o (IF Get(data, "Education", Str("Graduate")) = Str("Graduate") THEN <<5>> ELSE <<>>)
    \o (IF Get(data, "Married", Str("No")) = Str("Yes") /\ f.coapplicant_income > 0
        THEN <<5>> ELSE <<>>)
    \o (IF Get(data, "Property_Area", Str("Urban")) = Str("Semiurban") THEN <<5>>
        ELSE IF Get(data, "Property_Area", Str("Urban")) = Str("Rural") THEN <<-5>>
        ELSE <<>>)

\* score = max(0.05, min(0.95, score))
ClampScore(score) == FMax(Dec(5), FMin(Dec(95), score))

\* score = 0.5, the steps, the clamp
HeuristicScore(f, data) == ClampScore(Accumulate(Dec(50), LoanSteps(f, data)))

\* is_approved: score >= 0.5
IsApproved(score) == FGe(score, Dec(50))

Factor(name, status) == [factor |-> Str(name), status |-> Str(status)]

\* get_risk_factors: the EMI factor is appended only when monthly_income > 0
GetRiskFactors(f) ==
    <<IF f.credit_history = 1
      THEN Factor("Credit History", "positive")
      ELSE Factor("Credit History", "negative")>>
    \o <<IF IncomeToLoanGt(f, 5) THEN Factor("Income-to-Loan Ratio", "positive")
         ELSE IF IncomeToLoanGt(f, 2) THEN Factor("Income-to-Loan Ratio", "neutral")
         ELSE Factor("Income-to-Loan Ratio", "negative")>>
    \o (IF f.total_income > 0
        THEN <<IF EmiRatioLt(f, 30) THEN Factor("EMI Affordability", "positive")
               ELSE IF EmiRatioLt(f, 50) THEN Factor("EMI Affordability", "neutral")
               ELSE Factor("EMI Affordability", "negative")>>
        ELSE <<>>)

\* the heuristic return of predict_loan for a clamped score
HeuristicLoan(score, f) ==
    ReplyList(200, [is_approved |-> Bool(IsApproved(score)),
                    approval_probability |-> Num(Round4(score)),
                    model_type |-> Str("heuristic")],
              GetRiskFactors(f))

\* loan_model.predict(X)[0] of the stored classifier: it approves the
\* applications with a credit history
LoanModelPredict(model, f) ==
    IF model = "broken" THEN [ok |-> FALSE, n |-> 0]
    ELSE [ok |-> TRUE, n |-> IF f.credit_history = 1 THEN 1 ELSE 0]

\* loan_model.predict_proba(X)[0][1], which may raise
LoanModelProba(model, f) ==
    IF model = "noproba" THEN [ok |-> FALSE, p |-> FZero]
    ELSE [ok |-> TRUE, p |-> IF f.credit_history = 1 THEN Dec(80) ELSE Dec(20)]

\* the return of the model branch of predict_loan
ModelLoan(prediction, probability, f) ==
    ReplyList(200, [is_approved |-> Bool(prediction = 1),
                    approval_probability |-> Num(Round4(probability)),
                    model_type |-> Str("ml_model")],
              GetRiskFactors(f))

\* a failure of the model propagated to the outer handler
LoanDecision_Propagates(f, data, model) ==
    IF model = "None" THEN HeuristicLoan(HeuristicScore(f, data), f)
    ELSE IF ~LoanModelPredict(model, f).ok THEN Caught
    ELSE ModelLoan(LoanModelPredict(model, f).n,
                   ProbabilityOr(LoanModelProba(model, f), LoanModelPredict(model, f).n),
                   f)

\* the branch taken once the fields are extracted: the model when the
\* handle is there and its prediction does not raise, else the heuristic
LoanDecision(f, data, model) ==
    IF model # "None" /\ LoanModelPredict(model, f).ok
    THEN ModelLoan(LoanModelPredict(model, f).n,
                   ProbabilityOr(LoanModelProba(model, f), LoanModelPredict(model, f).n),
                   f)
    ELSE HeuristicLoan(HeuristicScore(f, data), f)

PredictLoanResponse(req, model) ==
    IF NoData(req) THEN NoInput
    ELSE IF ~LoanFields(req.data).ok THEN Caught
    ELSE LoanDecision(LoanFields(req.data), req.data, model)

PredictLoan == Handle("/predict_loan", PredictLoanResponse(request, loan_model))

\* the bodies of the /predict_loan requests of the model
LoanApplications ==
    {Request("/predict_loan",
             [ApplicantIncome |-> ai, CoapplicantIncome |-> ci, LoanAmount |-> la,
              Loan_Amount_Term |-> lt, Credit_History |-> ch, Education |-> ed,
              Married |-> ma, Property_Area |-> pa, Dependents |-> Absent]) :
        ai \in {Absent, Num(220), Num(1500)}, ci \in {Absent, Num(300)},
        la \in {Absent, Num(100), Num(1000)}, lt \in {Absent, Num(12)},
        ch \in {Absent, Num(0)}, ed \in {Absent, Str("Not Graduate")},
        ma \in {Absent, Str("Yes")}, pa \in {Absent, Str("Semiurban"), Str("Rural")}}

\* applications with a Dependents value, an unusable value, or no body
LoanSpecials ==
    {NullRequest("/predict_loan"), Request("/predict_loan", [x |-> Absent])}
    \cup {Request("/predict_loan",
                  [ApplicantIncome |-> Num(1500), LoanAmount |-> Num(100), Dependents |-> d]) :
            d \in {Num(2), Str("3+"), Str("2"), Str("abc"), Null, Num(-1)}}
    \cup {Request("/predict_loan", [ApplicantIncome |-> Str("abc"), LoanAmount |-> Num(100)]),
          Request("/predict_loan", [ApplicantIncome |-> Num(1500), LoanAmount |-> Num(-1)]),
          Request("/predict_loan", [ApplicantIncome |-> Num(1500), LoanAmount |-> Num(100),
                                    Loan_Amount_Term |-> Num(0)])}

LoanRequests == LoanApplications \cup LoanSpecials

----------------------------------------------------------------------------
(* The loan endpoint on its own. *)

InitLoan ==
    /\ artifacts \in {a \in ArtifactStates :
                        OthersUniform(a, {"credit_card_model",
                                          "expense_classifier_clean",
                                          "tfidf_vectorizer_clean"})}
    /\ InitHandles

NextLoan ==
    \/ LoadModels
    \/ Receive(LoanRequests)
    \/ PredictLoan
    \/ SendResponse

SpecLoan == InitLoan /\ [][NextLoan]_vars

----------------------------------------------------------------------------
(* IEEE-754 doubles of any magnitude, for the loan calculator: a sign, a   *)
(* 53-bit significand and a binary exponent (value = m * 2^e), zero being  *)
(* the empty significand.  Natural numbers of any size are sequences of    *)
(* 15-bit digits, least significant first, without leading zero digits.    *)

Radix == 2^15

Digit(a, i) == IF i >= 1 /\ i <= Len(a) THEN a[i] ELSE 0

\* the position of the leading nonzero digit, 0 when there is none
Top(a) ==
    IF \A i \in 1..Len(a) : a[i] = 0 THEN 0
    ELSE CHOOSE i \in 1..Len(a) : a[i] # 0 /\ \A j \in (i + 1)..Len(a) : a[j] = 0

Trim(a) == SubSeq(a, 1, Top(a))

RECURSIVE IntToBig(_)
IntToBig(k) == IF k = 0 THEN <<>> ELSE <<k % Radix>> \o IntToBig(k \div Radix)

RECURSIVE BigToInt(_)
BigToInt(a) == IF a = <<>> THEN 0 ELSE Head(a) + Radix * BigToInt(Tail(a))

\* a + b carries into digit i: a lower digit overflows and every digit
\* between passes the carry on
CarryInto(a, b, i) ==
    \E j \in 1..(i - 1) :
        /\ Digit(a, j) + Digit(b, j) >= Radix
        /\ \A k \in (j + 1)..(i - 1) : Digit(a, k) + Digit(b, k) = Radix - 1

AddDigits(a, b, n) ==
    Trim([i \in 1..n |->
             (Digit(a, i) + Digit(b, i) + (IF CarryInto(a, b, i) THEN 1 ELSE 0)) % Radix])

BigAdd(a, b) == AddDigits(a, b, (IF Len(a) > Len(b) THEN Len(a) ELSE Len(b)) + 1)

\* a - b borrows from digit i
BorrowFrom(a, b, i) ==
    \E j \in 1..(i - 1) :
        /\ a[j] < Digit(b, j)
        /\ \A k \in (j + 1)..(i - 1) : a[k] = Digit(b, k)

\* a - b for a >= b
BigSub(a, b) ==
    Trim([i \in 1..Len(a) |->
             (a[i] - Digit(b, i) - (IF BorrowFrom(a, b, i) THEN 1 ELSE 0) + Radix) % Radix])

BigLt(a, b) ==
    \/ Len(a) < Len(b)
    \/ /\ Len(a) = Len(b)
       /\ \E i \in 1..Len(a) : a[i] < b[i] /\ \A j \in (i + 1)..Len(a) : a[j] = b[j]

\* the number whose digit i is worth columns[i], each below Radix^2
Carry(columns) ==
    BigAdd([i \in 1..Len(columns) |-> columns[i] % Radix],
           <<0>> \o [i \in 1..Len(columns) |-> columns[i] \div Radix])

\* a * k for k up to Radix
BigMulDigit(a, k) == Carry(SubSeq([i \in 1..Len(a) |-> a[i] * k], 1, Len(a)))

\* what the products a[i] * b[j] from digit i of a on add to column c: the
\* low halves of those with i + j = c + 1, the high halves of those with
\* i + j = c
RECURSIVE ColumnSum(_, _, _, _)
ColumnSum(a, b, c, i) ==
    IF i > Len(a) THEN 0
    ELSE ((a[i] * Digit(b, c + 1 - i)) % Radix)
         + ((a[i] * Digit(b, c - i)) \div Radix)
         + ColumnSum(a, b, c, i + 1)

BigMul(a, b) ==
    Carry(SubSeq([c \in 1..(Len(a) + Len(b)) |-> ColumnSum(a, b, c, 1)],
                 1, Len(a) + Len(b)))

\* the number of bits of a digit, and of a number
BitsOfDigit(d) == CHOOSE k \in 0..15 : d < 2^k /\ (k = 0 \/ d >= 2^(k - 1))
BitLength(a) == IF a = <<>> THEN 0 ELSE 15 * (Len(a) - 1) + BitsOfDigit(a[Len(a)])

\* a * 2^n
ShiftLeft(a, n) ==
    IF a = <<>> THEN <<>>
    ELSE [i \in 1..(n \div 15) |-> 0] \o BigMulDigit(a, 2^(n % 15))

\* a \div 2^n
ShiftRight(a, n) ==
    Trim([i \in 1..(Len(a) - (n \div 15)) |->
             (Digit(a, i + (n \div 15)) \div 2^(n % 15))
             + (Digit(a, i + (n \div 15) + 1) % 2^(n % 15)) * 2^(15 - (n % 15))])

DZero == [neg |-> FALSE, m |-> <<>>, e |-> 0]

\* the significand q of 53 or, after a carry, 54 bits, as a double
Renormalise(neg, q, e) ==
    IF BitLength(q) = 54 THEN [neg |-> neg, m |-> ShiftRight(q, 1), e |-> e + 1]
    ELSE [neg |-> neg, m |-> q, e |-> e]

\* q + r/2^d rounded to an integer, ties to even; inexact tells that the
\* exact value lies above q + r/2^d
RoundEven(q, r, half, inexact) ==
    IF BigLt(half, r) \/ (r = half /\ (inexact \/ Digit(q, 1) % 2 = 1))
    THEN BigAdd(q, <<1>>)
    ELSE q

\* the d low bits of m rounded away
DropBits(neg, m, e, inexact, d) ==
    Renormalise(neg,
                RoundEven(ShiftRight(m, d),
                          BigSub(m, ShiftLeft(ShiftRight(m, d), d)),
                          ShiftLeft(<<1>>, d - 1),
                          inexact),
                e + d)

\* the double nearest to m * 2^e (to a value just above it when inexact),
\* round-half-to-even
RoundDouble(neg, m, e, inexact) ==
    IF m = <<>> THEN DZero
    ELSE IF BitLength(m) <= 53
    THEN [neg |-> neg, m |-> ShiftLeft(m, 53 - BitLength(m)),
          e |-> e - (53 - BitLength(m))]
    ELSE DropBits(neg, m, e, inexact, BitLength(m) - 53)

\* float(n) of an integer n
DFromInt(n) == RoundDouble(n < 0, IntToBig(IF n < 0 THEN 0 - n ELSE n), 0, FALSE)

DIsZero(x) == x.m = <<>>
DPositive(x) == ~DIsZero(x) /\ ~x.neg

\* the sum of two magnitudes with one exponent, as a double
AddAligned(xneg, xm, yneg, ym, e) ==
    IF xneg = yneg THEN RoundDouble(xneg, BigAdd(xm, ym), e, FALSE)
    ELSE IF BigLt(xm, ym) THEN RoundDouble(yneg, BigSub(ym, xm), e, FALSE)
    ELSE RoundDouble(xneg, BigSub(xm, ym), e, FALSE)

\* x + y
DAdd(x, y) ==
    IF DIsZero(x) THEN y
    ELSE IF DIsZero(y) THEN x
    ELSE IF x.e >= y.e
    THEN AddAligned(x.neg, ShiftLeft(x.m, x.e - y.e), y.neg, y.m, y.e)
    ELSE AddAligned(x.neg, x.m, y.neg, ShiftLeft(y.m, y.e - x.e), x.e)

\* x - y
DSub(x, y) == DAdd(x, [neg |-> ~y.neg, m |-> y.m, e |-> y.e])

\* x * y
DMul(x, y) ==
    IF DIsZero(x) \/ DIsZero(y) THEN DZero
    ELSE RoundDouble(x.neg # y.neg, BigMul(x.m, y.m), x.e + y.e, FALSE)

\* the next five quotient bits of the long division of rem by den, where
\* scaled = 32 * rem and rem < den
NextDigit(scaled, den) ==
    CHOOSE d \in 0..31 : ~BigLt(scaled, BigMulDigit(den, d))
                         /\ BigLt(scaled, BigMulDigit(den, d + 1))

DivideStep(quot, scaled, den, d) ==
    [quot |-> BigAdd(BigMulDigit(quot, 32), IntToBig(d)),
     rem |-> BigSub(scaled, BigMulDigit(den, d))]

\* steps more groups of five quotient bits of d.rem/den after d.quot
RECURSIVE DivideBits(_, _, _)
DivideBits(d, den, steps) ==
    IF steps = 0 THEN d
    ELSE IF d.rem = <<>> THEN [quot |-> ShiftLeft(d.quot, 5 * steps), rem |-> <<>>]
    ELSE DivideBits(DivideStep(d.quot, BigMulDigit(d.rem, 32), den,
                               NextDigit(BigMulDigit(d.rem, 32), den)),
                    den, steps - 1)

QuotientDouble(neg, d, e) == RoundDouble(neg, d.quot, e, d.rem # <<>>)

\* x / y for y # 0: the quotient of the significands to 60 binary places
DDiv(x, y) ==
    IF DIsZero(x) THEN DZero
    ELSE QuotientDouble(x.neg # y.neg,
                        IF BigLt(x.m, y.m)
                        THEN DivideBits([quot |-> <<>>, rem |-> x.m], y.m, 12)
                        ELSE DivideBits([quot |-> <<1>>, rem |-> BigSub(x.m, y.m)], y.m, 12),
                        x.e - y.e - 60)

\* a product kept to PowBits bits: what is cut off is remembered as inexact
PowBits == 105

Cut(m, e, inexact, d) ==
    IF d <= 0 THEN [m |-> m, e |-> e, inexact |-> inexact]
    ELSE [m |-> ShiftRight(m, d), e |-> e + d,
          inexact |-> inexact \/ ShiftLeft(ShiftRight(m, d), d) # m]

Times(x, y) ==
    IF x.m = <<>> \/ y.m = <<>> THEN [m |-> <<>>, e |-> 0, inexact |-> FALSE]
    ELSE Cut(BigMul(x.m, y.m), x.e + y.e, x.inexact \/ y.inexact,
             BitLength(x.m) + BitLength(y.m) - PowBits)

Square(x) == Times(x, x)

\* x^n for n >= 1, by squaring
RECURSIVE Power(_, _)
Power(x, n) ==
    IF n = 1 THEN x
    ELSE IF n % 2 = 0 THEN Square(Power(x, n \div 2))
    ELSE Times(x, Power(x, n - 1))

Rounded(p) == RoundDouble(FALSE, p.m, p.e, p.inexact)

\* pow(x, n) of the C library for x > 0 and an integer n >= 1: the double
\* nearest to the power
DPow(x, n) ==
    IF DIsZero(x) THEN DZero
    ELSE Rounded(Power([m |-> x.m, e |-> x.e, inexact |-> FALSE], n))

\* the integer nearest to m/2^d, ties to even, as digits and as a number
NearestDigits(m, d) ==
    RoundEven(ShiftRight(m, d),
              BigSub(m, ShiftLeft(ShiftRight(m, d), d)),
              ShiftLeft(<<1>>, d - 1),
              FALSE)

NearestInt(m, d) == BigToInt(NearestDigits(m, d))

Signed(neg, n) == IF neg THEN 0 - n ELSE n

\* round(x, 2) as the count of hundredths: the decimal nearest to the exact
\* value of the double, ties to even
Round2(x) ==
    IF DIsZero(x) THEN 0
    ELSE IF x.e >= 0 THEN Signed(x.neg, BigToInt(ShiftLeft(BigMulDigit(x.m, 100), x.e)))
    ELSE Signed(x.neg, NearestInt(BigMulDigit(x.m, 100), 0 - x.e))

\* the digits of the count of hundredths of |round(x, 2)|
Hundredths(x) ==
    IF DIsZero(x) THEN <<>>
    ELSE IF x.e >= 0 THEN Trim(ShiftLeft(BigMulDigit(x.m, 100), x.e))
    ELSE Trim(NearestDigits(BigMulDigit(x.m, 100), 0 - x.e))

----------------------------------------------------------------------------
(* POST /calculate_loan.  months is a whole number; principal and rate     *)
(* are doubles; emi, total_payment and total_interest are round(x, 2),     *)
(* held as a sign and the digits of the count of hundredths.               *)

\* the JSON number 1e-15, and the double it parses to
TinyNum == [t |-> "tiny", n |-> 0, s |-> ""]
DTiny == DDiv(DFromInt(1), DMul(DFromInt(10^7), DFromInt(10^8)))

\* the JSON number 100000000000000 (10^14), a principal, and its double
HugeNum == [t |-> "huge", n |-> 0, s |-> ""]
DHuge == DMul(DFromInt(10^7), DFromInt(10^7))

\* a double in a response
Float(x) == [t |-> "float", n |-> 0, s |-> "", x |-> x]

\* round(x, 2) in a response
Money(x) == [t |-> "money", n |-> 0, s |-> "", neg |-> x.neg, digits |-> Hundredths(x)]

\* float(v) of the calculator, as a double
CalcFloat(v) ==
    IF v = TinyNum THEN [ok |-> TRUE, x |-> DTiny]
    ELSE IF v = HugeNum THEN [ok |-> TRUE, x |-> DHuge]
    ELSE [ok |-> ToFloat(v).ok, x |-> DFromInt(ToFloat(v).n)]

\* int(v): a number truncates, a numeric string parses, anything else raises
ToInt(v) == IF v = TinyNum THEN [ok |-> TRUE, n |-> 0] ELSE ToFloat(v)

DOne == DFromInt(1)

\* total_payment = emi * months; total_interest = total_payment - principal
Schedule(principal, annual_rate, months, emi, total_payment) ==
    Reply(200, [emi |-> Money(emi),
                total_payment |-> Money(total_payment),
                total_interest |-> Money(DSub(total_payment, principal)),
                principal |-> Float(principal),
                rate |-> Float(DMul(annual_rate, DFromInt(100))),
                months |-> Num(months)])

\* principal * monthly_rate * pow(...) / (pow(...) - 1): the division
\* raises ZeroDivisionError when the power is 1.0
Amortized(principal, annual_rate, months, numerator, denominator) ==
    IF DIsZero(denominator) THEN Caught
    ELSE Schedule(principal, annual_rate, months, DDiv(numerator, denominator),
                  DMul(DDiv(numerator, denominator), DFromInt(months)))

Compound(principal, annual_rate, months, monthly_rate, growth) ==
    Amortized(principal, annual_rate, months,
              DMul(DMul(principal, monthly_rate), growth),
              DSub(growth, DOne))

\* the two branches of the EMI calculation
Emi(principal, annual_rate, months, monthly_rate) ==
    IF DPositive(monthly_rate)
    THEN Compound(principal, annual_rate, months, monthly_rate,
                  DPow(DAdd(DOne, monthly_rate), months))
    ELSE Schedule(principal, annual_rate, months,
                  DDiv(principal, DFromInt(months)),
                  DMul(DDiv(principal, DFromInt(months)), DFromInt(months)))

InvalidLoan == Reply(400, [error |-> Str("Invalid loan amount or term")])

Calculate(principal, annual_rate, months) ==
    IF ~DPositive(principal) \/ months <= 0 THEN InvalidLoan
    ELSE Emi(principal, annual_rate, months, DDiv(annual_rate, DFromInt(12)))

\* the three fields as the handler reads them, each under its two names
CalcPrincipal(data) == CalcFloat(Get(data, "principal", Get(data, "LoanAmount", Num(0))))
CalcRate(data) == CalcFloat(Get(data, "rate", Get(data, "interest_rate", Num(12))))
CalcMonths(data) == ToInt(Get(data, "months", Get(data, "Loan_Amount_Term", Num(360))))

\* request.json is None: data.get raises AttributeError; a value float()
\* or int() cannot convert raises ValueError or TypeError
CalculateLoanResponse(req) ==
    IF req.null THEN Caught
    ELSE IF ~(CalcPrincipal(req.data).ok /\ CalcRate(req.data).ok /\ CalcMonths(req.data).ok)
    THEN Caught
    ELSE Calculate(CalcPrincipal(req.data).x,
                   DDiv(CalcRate(req.data).x, DFromInt(100)),
                   CalcMonths(req.data).n)

CalculateLoan == Handle("/calculate_loan", CalculateLoanResponse(request))

----------------------------------------------------------------------------
(* POST /categorize_expense and /categorize_batch.  Descriptions are       *)
(* strings; a confidence in a response is round(c, 2), held as its count   *)
(* of hundredths.                                                          *)

CATEGORY_METADATA ==
    [c \in {"Food & Dining", "Transportation", "Shopping", "Bills & Utilities",
            "Entertainment", "Healthcare", "Education", "Travel", "Personal Care",
            "Others"} |->
        CASE c = "Food & Dining" -> [icon |-> "restaurant", color |-> "#ef4444"]
          [] c = "Transportation" -> [icon |-> "directions_car", color |-> "#f97316"]
          [] c = "Shopping" -> [icon |-> "shopping_bag", color |-> "#8b5cf6"]
          [] c = "Bills & Utilities" -> [icon |-> "receipt_long", color |-> "#06b6d4"]
          [] c = "Entertainment" -> [icon |-> "movie", color |-> "#ec4899"]
          [] c = "Healthcare" -> [icon |-> "local_hospital", color |-> "#10b981"]
          [] c = "Education" -> [icon |-> "school", color |-> "#3b82f6"]
          [] c = "Travel" -> [icon |-> "flight", color |-> "#14b8a6"]
          [] c = "Personal Care" -> [icon |-> "spa", color |-> "#f472b6"]
          [] OTHER -> [icon |-> "category", color |-> "#6b7280"]]

\* CATEGORY_METADATA.get(prediction, CATEGORY_METADATA['Others'])
Metadata(prediction) ==
    IF prediction \in DOMAIN CATEGORY_METADATA THEN CATEGORY_METADATA[prediction]
    ELSE CATEGORY_METADATA["Others"]

\* the letters str.lower() changes
Lowered ==
    [A |-> "a", B |-> "b", C |-> "c", D |-> "d", E |-> "e", F |-> "f", G |-> "g",
     H |-> "h", I |-> "i", J |-> "j", K |-> "k", L |-> "l", M |-> "m", N |-> "n",
     O |-> "o", P |-> "p", Q |-> "q", R |-> "r", S |-> "s", T |-> "t", U |-> "u",
     V |-> "v", W |-> "w", X |-> "x", Y |-> "y", Z |-> "z"]

\* character i of description.lower()
LowerAt(description, i) ==
    IF SubSeq(description, i, i) \in DOMAIN Lowered
    THEN Lowered[SubSeq(description, i, i)]
    ELSE SubSeq(description, i, i)

\* kw in description_lower
Contains(description, kw) ==
    \E i \in 1..(Len(description) - Len(kw) + 1) :
        \A j \in 1..Len(kw) : LowerAt(description, i + j - 1) = SubSeq(kw, j, j)

\* the keyword lists of get_category_fallback, in the order it tries them
FallbackKeywords ==
    <<[category |-> "Food & Dining",
       keywords |-> {"swiggy", "zomato", "restaurant", "cafe", "food", "pizza",
                     "burger", "coffee", "dinner", "lunch", "breakfast",
                     "mcdonald", "starbucks", "domino", "kfc", "subway"}],
      [category |-> "Transportation",
       keywords |-> {"uber", "ola", "rapido", "metro", "petrol", "fuel",
                     "gas station", "parking", "toll", "cab", "taxi",
                     "bus", "train", "flight", "airline"}],
      [category |-> "Shopping",
       keywords |-> {"amazon", "flipkart", "myntra", "shopping", "store",
                     "mart", "purchase", "order", "delivery", "grocery"}],
      [category |-> "Bills & Utilities",
       keywords |-> {"electricity", "water bill", "internet", "broadband",
                     "mobile recharge", "rent", "maintenance", "utility",
                     "gas bill", "phone bill", "dth"}],
      [category |-> "Entertainment",
       keywords |-> {"netflix", "spotify", "movie", "cinema", "game",
                     "hotstar", "prime", "youtube", "concert", "show"}],
      [category |-> "Healthcare",
       keywords |-> {"hospital", "doctor", "pharmacy", "medicine", "medical",
                     "clinic", "health", "dental", "lab test"}],
      [category |-> "Education",
       keywords |-> {"course", "tuition", "school", "college", "book",
                     "udemy", "coursera", "education", "training"}],
      [category |-> "Travel",
       keywords |-> {"hotel", "booking", "airbnb", "makemytrip",
                     "goibibo", "travel", "vacation", "trip"}]>>

\* any(kw in description_lower for kw in <list i>)
Matches(description, i) ==
    \E kw \in FallbackKeywords[i].keywords : Contains(description, kw)

\* the double a decimal literal of n hundredths denotes
DLiteral(n) == DDiv(DFromInt(n), DFromInt(100))

\* the doubles of the confidences: 0.85 and 0.50 of the fallback, and the
\* largest class probabilities 0.9 and 0.6 of the classifier of the model
\* directory
Confidence ==
    [match |-> DLiteral(85), default |-> DLiteral(50),
     netflix |-> DLiteral(90), other |-> DLiteral(60)]

\* a fallback that lets the last matching list win
get_category_fallback_LastMatch(description) ==
    IF \E i \in 1..Len(FallbackKeywords) : Matches(description, i)
    THEN [category |->
              FallbackKeywords[CHOOSE i \in 1..Len(FallbackKeywords) :
                                  /\ Matches(description, i)
                                  /\ \A j \in (i + 1)..Len(FallbackKeywords) :
                                        ~Matches(description, j)].category,
          confidence |-> Confidence.match]
    ELSE [category |-> "Others", confidence |-> Confidence.default]

\* the if statements from list i on: the first list with a keyword in the
\* description returns
RECURSIVE FirstMatch(_, _)
FirstMatch(description, i) ==
    IF i > Len(FallbackKeywords)
    THEN [category |-> "Others", confidence |-> Confidence.default]
    ELSE IF Matches(description, i)
    THEN [category |-> FallbackKeywords[i].category, confidence |-> Confidence.match]
    ELSE FirstMatch(description, i + 1)

\* the category and the confidence (0.85 or 0.50)
get_category_fallback(description) == FirstMatch(description, 1)

\* the classifier and vectorizer of the model directory: the label
\* predict gives a description and the largest class probability of
\* predict_proba
ClassifierPredict(description) ==
    IF Contains(description, "netflix") THEN "Entertainment" ELSE "Groceries"
ClassifierProba(description) ==
    IF Contains(description, "netflix") THEN Confidence.netflix ELSE Confidence.other

\* the prediction and confidence of one description: the classifier when
\* both handles are there, else the keyword fallback; the confidence is
\* the probability * 100
Percent(c) ==
    [category |-> c.category,
     confidence |-> DMul(c.confidence, DFromInt(100))]

Categorize(description, classifier, vectorizer) ==
    IF classifier # "None" /\ vectorizer # "None"
    THEN [category |-> ClassifierPredict(description),
          confidence |-> DMul(ClassifierProba(description), DFromInt(100))]
    ELSE Percent(get_category_fallback(description))

ModelUsed(classifier) == Str(IF classifier # "None" THEN "ml" ELSE "fallback")

CategoryReply(c, classifier) ==
    Reply(200, [category |-> Str(c.category),
                confidence |-> Num(Round2(c.confidence)),
                icon |-> Str(Metadata(c.category).icon),
                color |-> Str(Metadata(c.category).color),
                model_used |-> ModelUsed(classifier)])

DescriptionRequired == Reply(400, [error |-> Str("Description is required")])

\* request.json is None: data.get raises AttributeError; a description
\* that is not a string has no lower() and cannot be vectorized
CategorizeExpenseResponse(req, classifier, vectorizer) ==
    IF req.null THEN Caught
    ELSE IF ~Truthy(Get(req.data, "description", Str(""))) THEN DescriptionRequired
    ELSE IF req.data.description.t # "str" THEN Caught
    ELSE CategoryReply(Categorize(req.data.description.s, classifier, vectorizer),
                       classifier)

CategorizeExpense ==
    Handle("/categorize_expense",
           CategorizeExpenseResponse(request, expense_classifier, expense_vectorizer))

\* one entry of results
CategoryEntry(txn, c) ==
    [id |-> Get(txn, "id", Str("")),
     description |-> Get(txn, "description", Str("")),
     category |-> Str(c.category),
     confidence |-> Num(Round2(c.confidence)),
     icon |-> Str(Metadata(c.category).icon),
     color |-> Str(Metadata(c.category).color)]

CategoryResult(txn, classifier, vectorizer) ==
    CategoryEntry(txn, Categorize(Get(txn, "description", Str("")).s, classifier, vectorizer))

CategoryBatchReply(results, classifier) ==
    ReplyList(200, [count |-> Num(Len(results)), model_used |-> ModelUsed(classifier)],
              results)

TransactionsRequired == Reply(400, [error |-> Str("Transactions array is required")])

CategorizeBatchResponse(req, classifier, vectorizer) ==
    IF req.null THEN Caught
    ELSE IF req.transactions = <<>> THEN TransactionsRequired
    ELSE IF \E i \in 1..Len(req.transactions) :
                Get(req.transactions[i], "description", Str("")).t # "str"
    THEN Caught
    ELSE CategoryBatchReply([i \in 1..Len(req.transactions) |->
                                CategoryResult(req.transactions[i], classifier, vectorizer)],
                            classifier)

CategorizeBatch ==
    Handle("/categorize_batch",
           CategorizeBatchResponse(request, expense_classifier, expense_vectorizer))

\* the bodies of the expense requests of the model
Descriptions ==
    {Absent, Null, Num(0), Num(5), Str(""), Str("Swiggy order delivered Rs 450"),
     Str("UBER ride to airport"), Str("Netflix subscription"),
     Str("Parent teacher meeting"), Str("Gift for a friend"),
     Str("Amazon Prime Video"), Str("Hotel BOOKING fee"), Str("DOCTOR"),
     Str("City school tuition"), Str("Vacation TRIP"), Str("Movie Show")}

ExpenseRequests ==
    {NullRequest("/categorize_expense")}
    \cup {Request("/categorize_expense", [description |-> d]) : d \in Descriptions}

ExpenseTransactions ==
    {MkBody([id |-> Str("txn1"), description |-> d]) :
        d \in {Absent, Num(5), Str(""), Str("Swiggy order delivered Rs 450"),
               Str("Netflix subscription")}}
    \cup {MkBody([id |-> Num(7), description |-> Str("UBER ride to airport")]),
          MkBody([description |-> Str("Gift for a friend")])}

ExpenseTransactionLists == UNION {[1..n -> ExpenseTransactions] : n \in 0..MaxBatch}

ExpenseBatchRequests ==
    {NullRequest("/categorize_batch"), Request("/categorize_batch", [x |-> Absent])}
    \cup {BatchRequest("/categorize_batch", txs) : txs \in ExpenseTransactionLists}

\* the bodies of the /calculate_loan requests of the model
CalcRequests ==
    {NullRequest("/calculate_loan")}
    \cup {Request("/calculate_loan", [principal |-> p, rate |-> r, months |-> m]) :
            p \in {Absent, Num(0), Num(-5), Num(1000), Num(100000), Str("abc")},
            r \in {Absent, Num(0), Num(7), Num(12), Num(-5), TinyNum, Str("abc")},
            m \in {Absent, Num(0), Num(-1), Num(3), Num(12), Str("abc"), Null}}
    \cup {Request("/calculate_loan",
                  [LoanAmount |-> la, principal |-> p, interest_rate |-> ir,
                   Loan_Amount_Term |-> lt, months |-> m]) :
            la \in {Num(1000)}, p \in {Absent, Num(500)}, ir \in {Absent, Num(9)},
            lt \in {Absent, Num(24)}, m \in {Absent, Num(6)}}
    \cup {Request("/calculate_loan", [principal |-> HugeNum, rate |-> r, months |-> m]) :
            r \in {Num(0), Num(7)}, m \in {Num(11), Num(12)}}

----------------------------------------------------------------------------
(* The loan calculator on its own: it reads no handle. *)

InitCalc ==
    /\ artifacts \in {a \in ArtifactStates : OthersUniform(a, DOMAIN a)}
    /\ InitHandles

NextCalc ==
    \/ LoadModels
    \/ Receive(CalcRequests)
    \/ CalculateLoan
    \/ SendResponse

SpecCalc == InitCalc /\ [][NextCalc]_vars

----------------------------------------------------------------------------
(* The expense categorizer and the health check: every state of the two    *)
(* expense artifacts.                                                      *)

InitExpense ==
    /\ artifacts \in {a \in ArtifactStates :
                        OthersUniform(a, {"credit_card_model", "load_prediction_model"})}
    /\ InitHandles

ExpenseServerRequests ==
    {NullRequest("/health")} \cup ExpenseRequests \cup ExpenseBatchRequests

NextExpense ==
    \/ LoadModels
    \/ Receive(ExpenseServerRequests)
    \/ HealthCheck
    \/ CategorizeExpense
    \/ CategorizeBatch
    \/ SendResponse

SpecExpense == InitExpense /\ [][NextExpense]_vars

----------------------------------------------------------------------------
(* The whole server: every state of the model directory, and for every     *)
(* endpoint its request without a body, requests it serves and requests    *)
(* with a value it cannot use.                                             *)

PostEndpoints ==
    {"/predict_fraud", "/predict_loan", "/predict_fraud_batch", "/calculate_loan",
     "/categorize_expense", "/categorize_batch"}

ServerRequests ==
    {NullRequest("/health")}
    \cup {NullRequest(e) : e \in PostEndpoints}
    \cup {Request(e, [x |-> Absent]) : e \in PostEndpoints}
    \cup {Request("/predict_fraud", [simplified |-> s, Amount |-> a]) :
            s \in {Absent, Bool(TRUE)}, a \in {Num(6000), Str("abc")}}
    \cup LoanSpecials
    \cup {BatchRequest("/predict_fraud_batch", <<MkBody([Amount |-> a])>>) :
            a \in {Num(6000), Str("abc")}}
    \cup {Request("/calculate_loan", [principal |-> p, rate |-> r, months |-> m]) :
            p \in {Num(0), Num(1000), Str("abc")}, r \in {Num(0), Str("abc")},
            m \in {Num(12), Str("abc")}}
    \cup {Request("/categorize_expense", [description |-> d]) :
            d \in {Num(5), Str(""), Str("Netflix subscription")}}
    \cup {BatchRequest("/categorize_batch", <<MkBody([id |-> Str("txn1"), description |-> d])>>) :
            d \in {Num(5), Str("Netflix subscription")}}

Next ==
    \/ LoadModels
    \/ Receive(ServerRequests)
    \/ HealthCheck
    \/ PredictFraud
    \/ PredictLoan
    \/ PredictFraudBatch
    \/ CalculateLoan
    \/ CategorizeExpense
    \/ CategorizeBatch
    \/ SendResponse

Spec == Init /\ [][Next]_vars

----------------------------------------------------------------------------
(* The claims. *)

Responded(endpoint) == phase = "responded" /\ request.endpoint = endpoint

\* the request carries simplified=true
IsSimplified(req) == ~req.null /\ Get(req.data, "simplified", Bool(FALSE)) = Bool(TRUE)

\* C1 as stated: without simplified=true and with the fraud handle absent
\* the answer is the 503 fallback, never a heuristic score; with
\* simplified=true the answer is a 200 heuristic response, handle or not.
C1_Original ==
    Responded("/predict_fraud") =>
        /\ (~IsSimplified(request) /\ fraud_model = "None") => response = FraudUnavailable
        /\ IsSimplified(request) =>
              /\ response.status = 200
              /\ response.body.model_type = Str("heuristic")

\* float(Amount) succeeds and hour compares with an int
WellFormedSimplified(req) ==
    /\ ToFloat(Get(req.data, "Amount", Num(0))).ok
    /\ Get(req.data, "hour", Num(12)).t \in {"num", "bool"}

\* C1 amended: a request with a non-empty body and no simplified=true, made
\* while the fraud handle is absent, gets the 503 fallback (fallback=true,
\* is_fraud=false, fraud_probability=0.0) and no heuristic score; a request
\* with simplified=true whose Amount is numeric and whose hour is absent or
\* a number gets a 200 heuristic response whatever the fraud handle is.
C1_FraudDispatch ==
    Responded("/predict_fraud") =>
        /\ (~NoData(request) /\ ~IsSimplified(request) /\ fraud_model = "None") =>
              /\ response.status = 503
              /\ response.body.fallback = Bool(TRUE)
              /\ response.body.is_fraud = Bool(FALSE)
              /\ response.body.fraud_probability = Num(0)
              /\ "model_type" \notin DOMAIN response.body
        /\ (IsSimplified(request) /\ WellFormedSimplified(request)) =>
              /\ response.status = 200
              /\ response.body.model_type = Str("heuristic")

C1_Witness503 ==
    /\ Responded("/predict_fraud")
    /\ ~NoData(request) /\ ~IsSimplified(request) /\ fraud_model = "None"
    /\ response.status = 503

C1_Witness ==
    /\ Responded("/predict_fraud")
    /\ IsSimplified(request) /\ fraud_model = "None"
    /\ response.status = 200
    /\ response.body.fraud_probability = Num(3000)

\* C2: every fraud_probability of a simplified /predict_fraud response and
\* of a /predict_fraud_batch result is in [0, 0.95] (0..9500
\* ten-thousandths); the full sum of the boosts, 1.0, comes back as 0.95.
C2_ProbabilityCapped ==
    /\ (Responded("/predict_fraud") /\ response.status = 200
        /\ response.body.model_type = Str("heuristic")) =>
           response.body.fraud_probability.n \in 0..9500
    /\ (Responded("/predict_fraud_batch") /\ response.status = 200) =>
           \A i \in DOMAIN response.list :
               response.list[i].fraud_probability.n \in 0..9500

\* every boost applies (amount above 10000, night hour, foreign, rapid)
\* and the probability returned is the cap
C2_Witness ==
    /\ Responded("/predict_fraud")
    /\ IsSimplified(request)
    /\ Get(request.data, "Amount", Num(0)) = Num(10001)
    /\ Get(request.data, "hour", Num(12)) = Num(24)
    /\ Truthy(Get(request.data, "is_foreign", Bool(FALSE)))
    /\ Truthy(Get(request.data, "rapid_transactions", Bool(FALSE)))
    /\ response.body.fraud_probability = Num(9500)

\* the hour predicate of the simplified score
NightHour(req) ==
    LET hour == Get(req.data, "hour", Num(12)) IN hour.n < 6 \/ hour.n > 23

\* r is q with one risk-boosting predicate switched from holding to not
\* holding: the same amount, and the other two predicates as in q
OneBoostLess(r, q) ==
    LET f(x) == Truthy(Get(x.data, "is_foreign", Bool(FALSE)))
        p(x) == Truthy(Get(x.data, "rapid_transactions", Bool(FALSE)))
    IN  /\ IsSimplified(r) /\ WellFormedSimplified(r)
        /\ Get(r.data, "Amount", Num(0)) = Get(q.data, "Amount", Num(0))
        /\ \/ f(q) /\ ~f(r) /\ p(r) = p(q) /\ NightHour(r) = NightHour(q)
           \/ p(q) /\ ~p(r) /\ f(r) = f(q) /\ NightHour(r) = NightHour(q)
           \/ NightHour(q) /\ ~NightHour(r) /\ f(r) = f(q) /\ p(r) = p(q)

\* C3: in simplified mode, switching one risk-boosting predicate on (the
\* amount and the other predicates fixed) never lowers fraud_probability
\* and never turns is_fraud from true to false.
C3_BoostMonotone ==
    (Responded("/predict_fraud") /\ IsSimplified(request)
     /\ WellFormedSimplified(request)) =>
        \A r \in FraudRequests :
            OneBoostLess(r, request) =>
                LET low == PredictFraudResponse(r, fraud_model)
                IN  /\ low.body.fraud_probability.n <= response.body.fraud_probability.n
                    /\ low.body.is_fraud = Bool(TRUE) => response.body.is_fraud = Bool(TRUE)

\* a boost that carries the score over the is_fraud threshold
C3_Witness ==
    /\ Responded("/predict_fraud") /\ IsSimplified(request)
    /\ WellFormedSimplified(request)
    /\ response.body.is_fraud = Bool(TRUE)
    /\ \E r \in FraudRequests :
          /\ OneBoostLess(r, request)
          /\ PredictFraudResponse(r, fraud_model).body.is_fraud = Bool(FALSE)
          /\ PredictFraudResponse(r, fraud_model).body.fraud_probability.n
               < response.body.fraud_probability.n

\* the batch of one transaction of amount 6000 with no other boost
OneOf6000(req) ==
    /\ Len(req.transactions) = 1
    /\ Get(req.transactions[1], "Amount", Get(req.transactions[1], "amount", Num(0)))
         = Num(6000)
    /\ ~Truthy(Get(req.transactions[1], "is_foreign", Bool(FALSE)))

\* C4 as stated: that batch returns is_fraud = true, fraud_probability 0.3
C4_Original ==
    (Responded("/predict_fraud_batch") /\ OneOf6000(request)) =>
        /\ response.status = 200
        /\ response.list[1].is_fraud = Bool(TRUE)
        /\ response.list[1].fraud_probability = Num(3000)

\* C4 amended: /predict_fraud_batch with a single transaction of amount
\* 6000 and no other boosting factor returns for it is_fraud = false and
\* fraud_probability = 0.3 (0.3 is not above the 0.5 threshold).
C4_Batch6000 ==
    (Responded("/predict_fraud_batch") /\ OneOf6000(request)) =>
        /\ response.status = 200
        /\ Len(response.list) = 1
        /\ response.list[1].is_fraud = Bool(FALSE)
        /\ response.list[1].fraud_probability = Num(3000)
        /\ response.body.flagged = Num(0)

C4_Witness ==
    /\ Responded("/predict_fraud_batch") /\ OneOf6000(request)
    /\ response.status = 200
    /\ response.list[1].fraud_probability = Num(3000)

HeuristicLoanResponse ==
    /\ Responded("/predict_loan")
    /\ response.status = 200
    /\ response.body.model_type = Str("heuristic")

\* C5: on the heuristic path of /predict_loan, approval_probability is in
\* [0.05, 0.95] (500..9500 ten-thousandths) and is_approved is true
\* exactly when the score returned is at least 0.5.
C5_ClampedAndApproved ==
    HeuristicLoanResponse =>
        /\ response.body.approval_probability.n \in 500..9500
        /\ response.body.is_approved = Bool(response.body.approval_probability.n >= 5000)

\* the range alone does hold
C5_Range == HeuristicLoanResponse => response.body.approval_probability.n \in 500..9500

\* the score is reported as 0.5 and the application is not approved
C5_HalfNotApproved ==
    /\ HeuristicLoanResponse
    /\ response.body.approval_probability = Num(5000)
    /\ response.body.is_approved = Bool(FALSE)

Statuses == {Str("positive"), Str("neutral"), Str("negative")}

\* C6: every 200 response of /predict_loan carries exactly three risk
\* factors, Credit History, Income-to-Loan Ratio and EMI Affordability,
\* each positive, neutral or negative, zero total income included.
C6_ThreeFactors ==
    (Responded("/predict_loan") /\ response.status = 200) =>
        /\ Len(response.list) = 3
        /\ response.list[1].factor = Str("Credit History")
        /\ response.list[2].factor = Str("Income-to-Loan Ratio")
        /\ response.list[3].factor = Str("EMI Affordability")
        /\ \A i \in 1..3 : response.list[i].status \in Statuses

\* the request passes the extraction of its fields, so that the handler
\* reaches the model branch when the loan handle is there
ReachesLoanBranch(req) == ~NoData(req) /\ LoanFields(req.data).ok

\* C7: with the loan handle present and the model failing on the request,
\* /predict_loan answers 200 with model_type 'heuristic' and the very
\* response the request gets when the loan handle is absent.
C7_ModelFailureFallsBack ==
    (Responded("/predict_loan") /\ loan_model = "broken" /\ ReachesLoanBranch(request)) =>
        /\ response.status = 200
        /\ response.body.model_type = Str("heuristic")
        /\ response = PredictLoanResponse(request, "None")

C7_Witness ==
    /\ Responded("/predict_loan") /\ loan_model = "broken"
    /\ ReachesLoanBranch(request)
    /\ response.status = 200
    /\ response.body.model_type = Str("heuristic")
    /\ Len(response.list) = 3

\* C8: every POST endpoint answers a request whose parsed JSON body is null
\* with status 400 and an error field
C8_NullBodyRejected ==
    \A e \in PostEndpoints :
        Responded(e) /\ request.null
            => response.status = 400 /\ "error" \in DOMAIN response.body

\* the body is there and holds, in a field the endpoint converts, a value
\* the conversion raises on
InvalidValue(req) ==
    /\ ~NoData(req)
    /\ \/ req.endpoint = "/predict_loan" /\ ~LoanFields(req.data).ok
       \/ /\ req.endpoint = "/calculate_loan"
          /\ ~(CalcPrincipal(req.data).ok /\ CalcRate(req.data).ok
                /\ CalcMonths(req.data).ok)

\* C9: a request of /predict_loan or /calculate_loan whose body carries an
\* invalid value in a field the endpoint reads is answered with status 400
\* and an error message
C9_InvalidValueRejected ==
    phase = "responded" /\ InvalidValue(request)
        => response.status = 400 /\ "error" \in DOMAIN response.body

\* the body is there and its three fields convert
CalcValid(req) ==
    /\ ~req.null
    /\ CalcPrincipal(req.data).ok /\ CalcRate(req.data).ok /\ CalcMonths(req.data).ok

\* C10: /calculate_loan answers 400 with an error field when principal <= 0
\* or months <= 0, and otherwise 200 with emi, total_payment,
\* total_interest, principal, rate and months; the rate echoed is 12 when
\* the request gives none and the term is 360 when it gives none
C10_CalculateLoanStatus ==
    Responded("/calculate_loan") /\ CalcValid(request)
        => IF ~DPositive(CalcPrincipal(request.data).x) \/ CalcMonths(request.data).n <= 0
           THEN response.status = 400 /\ "error" \in DOMAIN response.body
           ELSE /\ response.status = 200
                /\ DOMAIN response.body
                     = {"emi", "total_payment", "total_interest", "principal", "rate",
                        "months"}
                /\ DOMAIN request.data \cap {"rate", "interest_rate"} = {}
                     => response.body.rate = Float(DFromInt(12))
                /\ DOMAIN request.data \cap {"months", "Loan_Amount_Term"} = {}
                     => response.body.months = Num(360)

\* /calculate_loan has answered 200 to a request whose fields convert
CalcAnswered ==
    Responded("/calculate_loan") /\ CalcValid(request) /\ response.status = 200

\* |a - b| of two digit sequences
BigDistance(a, b) == IF BigLt(a, b) THEN BigSub(b, a) ELSE BigSub(a, b)

\* emi is principal/months rounded to 2 decimals: no count of hundredths
\* lies nearer to 100 * principal / months
EmiIsQuotient(emi, principal, months) ==
    /\ ~emi.neg
    /\ ~BigLt(IntToBig(months),
              Trim(BigMulDigit(BigDistance(Trim(BigMulDigit(emi.digits, months)),
                                           Hundredths(principal)),
                               2)))

\* total_interest = total_payment - principal, in hundredths
InterestIsDifference(body, principal) ==
    IF body.total_interest.neg
    THEN Trim(BigAdd(body.total_payment.digits, body.total_interest.digits))
            = Hundredths(principal)
    ELSE body.total_payment.digits
            = Trim(BigAdd(Hundredths(principal), body.total_interest.digits))

\* C11: a /calculate_loan answer for rate 0 has emi = principal/months
\* rounded to 2 decimals, total_payment = principal and total_interest = 0;
\* every answer has total_interest = total_payment - principal
C11_ZeroRateSchedule ==
    CalcAnswered
        => /\ DIsZero(CalcRate(request.data).x)
                => /\ EmiIsQuotient(response.body.emi, CalcPrincipal(request.data).x,
                                    CalcMonths(request.data).n)
                   /\ response.body.total_payment = Money(CalcPrincipal(request.data).x)
                   /\ response.body.total_interest.digits = <<>>
           /\ InterestIsDifference(response.body, CalcPrincipal(request.data).x)

\* the same for the principals below 10^14
C11_OrdinaryPrincipals ==
    CalcAnswered /\ Get(request.data, "principal", Absent) # HugeNum
        => /\ DIsZero(CalcRate(request.data).x)
                => /\ EmiIsQuotient(response.body.emi, CalcPrincipal(request.data).x,
                                    CalcMonths(request.data).n)
                   /\ response.body.total_payment = Money(CalcPrincipal(request.data).x)
                   /\ response.body.total_interest.digits = <<>>
           /\ InterestIsDifference(response.body, CalcPrincipal(request.data).x)

\* the interest identity alone, for every principal
C11_InterestIdentity ==
    CalcAnswered
        => /\ ~response.body.total_payment.neg
           /\ InterestIsDifference(response.body, CalcPrincipal(request.data).x)

\* principal 10^14 at rate 0 over 11 months: total_payment is not the
\* principal and total_interest is 0.02
C11_HugePrincipal ==
    /\ CalcAnswered
    /\ request.data = [principal |-> HugeNum, rate |-> Num(0), months |-> Num(11)]
    /\ response.body.total_payment # Money(DHuge)
    /\ response.body.total_interest.digits = <<2>>

\* a zero-rate answer for an ordinary principal
C11_Witness ==
    /\ CalcAnswered
    /\ request.data = [principal |-> Num(1000), rate |-> Num(0), months |-> Num(3)]
    /\ response.body.emi.digits = IntToBig(33333)

\* the keyword fallback categorizes: a handle is missing and the
\* description is a string that is not empty
FallbackAnswered ==
    /\ Responded("/categorize_expense")
    /\ expense_classifier = "None" \/ expense_vectorizer = "None"
    /\ ~request.null
    /\ "description" \in DOMAIN request.data
    /\ request.data.description.t = "str"
    /\ request.data.description.s # ""

\* the categories in the order the fallback tries them
FallbackOrder ==
    <<"Food & Dining", "Transportation", "Shopping", "Bills & Utilities",
      "Entertainment", "Healthcare", "Education", "Travel">>

Capital ==
    [a |-> "A", b |-> "B", c |-> "C", d |-> "D", e |-> "E", f |-> "F", g |-> "G",
     h |-> "H", i |-> "I", j |-> "J", k |-> "K", l |-> "L", m |-> "M", n |-> "N",
     o |-> "O", p |-> "P", q |-> "Q", r |-> "R", s |-> "S", t |-> "T", u |-> "U",
     v |-> "V", w |-> "W", x |-> "X", y |-> "Y", z |-> "Z"]

\* kw occurs in text when the case of letters is ignored
OccursIgnoringCase(text, kw) ==
    \E i \in 1..(Len(text) - Len(kw) + 1) :
        \A j \in 1..Len(kw) :
            \/ SubSeq(text, i + j - 1, i + j - 1) = SubSeq(kw, j, j)
            \/ /\ SubSeq(kw, j, j) \in DOMAIN Capital
               /\ SubSeq(text, i + j - 1, i + j - 1) = Capital[SubSeq(kw, j, j)]

\* text holds a keyword of category number i
HasKeywordOf(text, i) ==
    /\ FallbackKeywords[i].category = FallbackOrder[i]
    /\ \E kw \in FallbackKeywords[i].keywords : OccursIgnoringCase(text, kw)

\* C12: the keyword fallback ignores case and gives the first category of
\* the fixed order that has a keyword in the description, with confidence
\* 85.0 and that category's icon; a description with no keyword gets
\* Others with confidence 50.0
C12_FallbackFirstMatch ==
    FallbackAnswered
        => /\ response.status = 200
           /\ \A i \in 1..Len(FallbackOrder) :
                 /\ HasKeywordOf(request.data.description.s, i)
                 /\ \A j \in 1..(i - 1) : ~HasKeywordOf(request.data.description.s, j)
                 => /\ response.body.category = Str(FallbackOrder[i])
                    /\ response.body.confidence = Num(8500)
                    /\ response.body.icon = Str(CATEGORY_METADATA[FallbackOrder[i]].icon)
           /\ (\A i \in 1..Len(FallbackOrder) :
                    ~HasKeywordOf(request.data.description.s, i))
                 => /\ response.body.category = Str("Others")
                    /\ response.body.confidence = Num(5000)
           /\ request.data.description.s = "Swiggy order delivered Rs 450"
                 => /\ response.body.category = Str("Food & Dining")
                    /\ response.body.confidence = Num(8500)
                    /\ response.body.icon = Str("restaurant")

\* the Swiggy description, which also holds the Shopping keyword order
C12_Witness ==
    /\ FallbackAnswered
    /\ request.data.description.s = "Swiggy order delivered Rs 450"
    /\ HasKeywordOf(request.data.description.s, 1)
    /\ HasKeywordOf(request.data.description.s, 3)
    /\ response.body.category = Str("Food & Dining")

\* a keyword in capitals, and a description without any keyword
C12_WitnessCase ==
    /\ FallbackAnswered
    /\ request.data.description.s = "DOCTOR"
    /\ response.body.category = Str("Healthcare")

C12_WitnessOthers ==
    /\ FallbackAnswered
    /\ request.data.description.s = "Gift for a friend"
    /\ response.body.category = Str("Others")

\* /categorize_batch has answered a request that carries transactions
BatchCategorized ==
    /\ Responded("/categorize_batch")
    /\ ~request.null
    /\ request.transactions # <<>>

\* what /categorize_expense yields for the description of txn under the
\* handles of the state
SingleOutcome(txn) ==
    CategorizeExpenseResponse(
        Request("/categorize_expense", [description |-> Get(txn, "description", Str(""))]),
        expense_classifier, expense_vectorizer)

\* entry i of results carries the id of transaction i and the category,
\* confidence, icon and color of the single answer
EntryIsSingle(i) ==
    /\ "id" \in DOMAIN request.transactions[i]
          => response.list[i].id = request.transactions[i].id
    /\ \A k \in {"category", "confidence", "icon", "color"} :
          response.list[i][k] = SingleOutcome(request.transactions[i]).body[k]

\* C13: /categorize_batch gives every entry the outcome /categorize_expense
\* gives its description under the same handles: one result per entry in
\* input order with the entry's id and the single answer's category,
\* confidence, icon and color, and the rejection of an empty description
C13_BatchIsSingle ==
    BatchCategorized
        => /\ (\E i \in 1..Len(request.transactions) :
                   SingleOutcome(request.transactions[i]).status = 400)
                 => response.status = 400
           /\ (\A i \in 1..Len(request.transactions) :
                   SingleOutcome(request.transactions[i]).status = 200)
                 => /\ response.status = 200
                    /\ Len(response.list) = Len(request.transactions)
                    /\ \A i \in 1..Len(request.transactions) : EntryIsSingle(i)

\* the same without the rejection: when the single endpoint answers every
\* description with 200, the results are the single answers
C13_NonEmptyEntries ==
    /\ BatchCategorized
    /\ \A i \in 1..Len(request.transactions) :
          SingleOutcome(request.transactions[i]).status = 200
    => /\ response.status = 200
       /\ Len(response.list) = Len(request.transactions)
       /\ \A i \in 1..Len(request.transactions) : EntryIsSingle(i)

\* an entry with an empty description is categorized by the batch and
\* rejected by the single endpoint
C13_EmptyCategorized ==
    /\ BatchCategorized
    /\ request.transactions = <<MkBody([id |-> Str("txn1"), description |-> Str("")])>>
    /\ SingleOutcome(request.transactions[1]).status = 400
    /\ response.status = 200
    /\ Len(response.list) = 1
    /\ expense_classifier = "None" => response.list[1].category = Str("Others")

\* one of the two categorizing endpoints has answered 200
Categorized ==
    /\ phase = "responded"
    /\ request.endpoint \in {"/categorize_expense", "/categorize_batch"}
    /\ response.status = 200

\* the classifier computes the categories: both handles are there
ClassifierComputes == expense_classifier # "None" /\ expense_vectorizer # "None"

\* C14: in every state of the expense handles after load_models, model_used
\* is 'ml' exactly when the classifier computed the category and 'fallback'
\* exactly when the keyword fallback did, and so agrees with
\* expense_model_loaded of /health
C14_ModelUsedTruthful ==
    Categorized
        => /\ response.body.model_used
                = Str(IF ClassifierComputes THEN "ml" ELSE "fallback")
           /\ response.body.model_used = Str("ml")
                <=> HealthResponse.body.expense_model_loaded = Bool(TRUE)

\* the classifier loaded and the load of the vectorizer failed: the
\* fallback categorizes and the answer says 'ml'
C14_HalfLoaded ==
    /\ Responded("/categorize_expense")
    /\ artifacts.expense_classifier_clean = "clf"
    /\ artifacts.tfidf_vectorizer_clean = "corrupt"
    /\ expense_classifier = "clf" /\ expense_vectorizer = "None"
    /\ request.data = [description |-> Str("Swiggy order delivered Rs 450")]
    /\ response.body.category = Str("Food & Dining")
    /\ response.body.confidence = Num(8500)
    /\ response.body.model_used = Str("ml")
    /\ HealthResponse.body.expense_model_loaded = Bool(FALSE)

\* model_used tells whether the classifier handle is there
C14_ModelUsedIsClassifierHandle ==
    Categorized
        => response.body.model_used
             = Str(IF expense_classifier # "None" THEN "ml" ELSE "fallback")

\* the artifact of a model is there and deserializes
LoadsWell(artifact) == artifacts[artifact] \notin Unloadable

\* C15: load_models completes for every combination of present, missing
\* and undeserializable artifacts, and afterwards /health answers status OK
\* with each of the three flags true exactly when that model's own
\* artifacts loaded, whatever became of the other two
C15_HealthReflectsLoads ==
    /\ phase = "startup" => ENABLED LoadModels
    /\ Responded("/health")
         => /\ response.status = 200
            /\ response.body.status = Str("OK")
            /\ response.body.fraud_model_loaded = Bool(LoadsWell("credit_card_model"))
            /\ response.body.loan_model_loaded = Bool(LoadsWell("load_prediction_model"))
            /\ response.body.expense_model_loaded
                 = Bool(LoadsWell("expense_classifier_clean")
                        /\ LoadsWell("tfidf_vectorizer_clean"))

\* /health has answered with these three flags
HealthFlags(fraud, loan, expense) ==
    /\ Responded("/health")
    /\ response.body.fraud_model_loaded = Bool(fraud)
    /\ response.body.loan_model_loaded = Bool(loan)
    /\ response.body.expense_model_loaded = Bool(expense)

\* the loan model alone is loaded, next to an undeserializable fraud model
C15_Witness ==
    /\ artifacts.credit_card_model = "corrupt"
    /\ HealthFlags(FALSE, TRUE, FALSE)

\* the handles load_models leaves for the artifacts of the state
HandlesAtStartup ==
    <<IF LoadsWell("credit_card_model") THEN artifacts.credit_card_model ELSE "None",
      IF LoadsWell("load_prediction_model") THEN artifacts.load_prediction_model
      ELSE "None",
      IF LoadsWell("expense_classifier_clean")
         /\ artifacts.tfidf_vectorizer_clean # "missing"
      THEN artifacts.expense_classifier_clean ELSE "None",
      IF LoadsWell("expense_classifier_clean") /\ LoadsWell("tfidf_vectorizer_clean")
      THEN artifacts.tfidf_vectorizer_clean ELSE "None">>

\* the answer of the endpoint of req to req under the handles of the state
Answer(req) ==
    CASE req.endpoint = "/health" -> HealthResponse
      [] req.endpoint = "/predict_fraud" -> PredictFraudResponse(req, fraud_model)
      [] req.endpoint = "/predict_loan" -> PredictLoanResponse(req, loan_model)
      [] req.endpoint = "/predict_fraud_batch" -> PredictFraudBatchResponse(req)
      [] req.endpoint = "/calculate_loan" -> CalculateLoanResponse(req)
      [] req.endpoint = "/categorize_expense"
           -> CategorizeExpenseResponse(req, expense_classifier, expense_vectorizer)
      [] req.endpoint = "/categorize_batch"
           -> CategorizeBatchResponse(req, expense_classifier, expense_vectorizer)

SimplifiedOf(tx) ==
    Request("/predict_fraud",
            [simplified |-> Bool(TRUE),
             Amount |-> Get(tx, "Amount", Absent),
             hour |-> Get(tx, "hour", Absent),
             is_foreign |-> Get(tx, "is_foreign", Absent),
             rapid_transactions |-> Get(tx, "rapid_transactions", Absent)])

\* the batch answered 200 for transactions that give their amount as Amount
BatchScored ==
    /\ Responded("/predict_fraud_batch")
    /\ response.status = 200
    /\ \A i \in DOMAIN request.transactions : "amount" \notin DOMAIN request.transactions[i]

\* the verdict of the batch for its i-th transaction is that of the
\* simplified mode
SameVerdict(i) ==
    LET single == PredictFraudResponse(SimplifiedOf(request.transactions[i]), fraud_model)
    IN  /\ single.status = 200
        /\ response.list[i].is_fraud = single.body.is_fraud
        /\ response.list[i].fraud_probability = single.body.fraud_probability
        /\ response.list[i].risk_level = single.body.risk_level

\* C17: for every transaction of a batch, the is_fraud, fraud_probability
\* and risk_level that /predict_fraud_batch returns equal what the
\* simplified mode of /predict_fraud returns for a request with the same
\* Amount, hour, is_foreign and rapid_transactions.
C17_BatchIsSimplified ==
    BatchScored => \A i \in DOMAIN request.transactions : SameVerdict(i)

\* the transactions the two scorings treat alike: no hour outside 6..23,
\* no rapid_transactions, no amount in the tier above 1000 up to 2000
OutsideOmittedTerms(tx) ==
    /\ "hour" \notin DOMAIN tx
    /\ ~Truthy(Get(tx, "rapid_transactions", Bool(FALSE)))
    /\ ~(BatchAmount(tx).n > 1000 /\ BatchAmount(tx).n <= 2000)

\* C17, the part the code keeps: the two verdicts are equal for the
\* transactions that none of the three terms the batch leaves out applies to
C17_SharedTerms ==
    BatchScored =>
        \A i \in DOMAIN request.transactions :
            OutsideOmittedTerms(request.transactions[i]) => SameVerdict(i)

\* a batch of the single transaction of amount 6000 with rapid_transactions:
\* not fraud at 0.3 in the batch, fraud at 0.55 in the simplified mode
C17_RapidIgnored ==
    /\ BatchScored
    /\ request.transactions = <<MkBody([Amount |-> Num(6000),
                                        rapid_transactions |-> Bool(TRUE)])>>
    /\ response.list[1].is_fraud = Bool(FALSE)
    /\ response.list[1].fraud_probability = Num(3000)
    /\ PredictFraudResponse(SimplifiedOf(request.transactions[1]), fraud_model).body.is_fraud
         = Bool(TRUE)
    /\ PredictFraudResponse(SimplifiedOf(request.transactions[1]), fraud_model)
         .body.fraud_probability = Num(5500)

\* batches of two transactions that the two scorings treat alike
C17_SharedWitness ==
    /\ BatchScored
    /\ Len(request.transactions) = 2
    /\ \A i \in 1..2 : OutsideOmittedTerms(request.transactions[i]) /\ SameVerdict(i)
    /\ response.list[1].is_fraud # response.list[2].is_fraud

\* the amount of every transaction of the request converts to a float
NumericAmounts(req) ==
    \A i \in DOMAIN req.transactions : BatchAmount(req.transactions[i]).ok

\* the id a result is to carry: id, or transaction_id when id is absent
CallerId(tx) ==
    IF "id" \in DOMAIN tx THEN tx.id
    ELSE IF "transaction_id" \in DOMAIN tx THEN tx.transaction_id
    ELSE Null

\* the results whose is_fraud is true
FraudResults == {i \in DOMAIN response.list : response.list[i].is_fraud = Bool(TRUE)}

\* success, one result per transaction in input order, total and flagged
BatchShape ==
    /\ response.status = 200
    /\ response.body.success = Bool(TRUE)
    /\ Len(response.list) = Len(request.transactions)
    /\ \A i \in DOMAIN request.transactions :
          /\ response.list[i].transaction_id = CallerId(request.transactions[i])
          /\ response.list[i].fraud_probability
               = BatchResult(request.transactions[i]).fraud_probability
    /\ response.body.total = Num(Len(request.transactions))
    /\ response.body.flagged = Num(Cardinality(FraudResults))
    /\ Cardinality(FraudResults) <= Len(request.transactions)

\* C18 as stated: every request with a transactions list gets that shape,
\* and an empty or missing list gets total 0 and flagged 0
C18_Original ==
    /\ (Responded("/predict_fraud_batch") /\ request.has_transactions) => BatchShape
    /\ (Responded("/predict_fraud_batch") /\ Len(request.transactions) = 0) =>
          /\ response.status = 200
          /\ response.body.total = Num(0)
          /\ response.body.flagged = Num(0)

\* C18 amended: a /predict_fraud_batch request whose body is a JSON object
\* and whose transactions all have a numeric amount gets success = true,
\* one result per transaction in input order carrying its id (or its
\* transaction_id when id is absent), total = the number of transactions
\* and flagged = the number of results whose is_fraud is true; with the
\* list empty or missing, total and flagged are 0.
C18_BatchShape ==
    (Responded("/predict_fraud_batch") /\ ~request.null /\ NumericAmounts(request)) =>
        /\ BatchShape
        /\ Len(request.transactions) = 0 =>
              response.body.total = Num(0) /\ response.body.flagged = Num(0)

\* a batch of two: the first result carries an id, the second a
\* transaction_id, and only the second is flagged
C18_Witness ==
    /\ Responded("/predict_fraud_batch")
    /\ BatchShape
    /\ Len(request.transactions) = 2
    /\ response.list[1].transaction_id = Str("t4")
    /\ response.list[2].transaction_id = Str("t2")
    /\ response.body.total = Num(2)
    /\ response.body.flagged = Num(1)
    /\ FraudResults = {2}

\* a request without a transactions list: no results, total 0, flagged 0
C18_WitnessMissing ==
    /\ Responded("/predict_fraud_batch")
    /\ ~request.null /\ ~request.has_transactions
    /\ response.status = 200
    /\ response.list = <<>>
    /\ response.body.total = Num(0)
    /\ response.body.flagged = Num(0)

\* a transactions list with a non-numeric amount: 500
C18_WitnessRaises ==
    /\ Responded("/predict_fraud_batch")
    /\ request.has_transactions /\ ~NumericAmounts(request)
    /\ response.status = 500

====
